---- MODULE Spec2Model ----
(***************************************************************************)
(* Model of the yahoo-furigana MCP server (gen_furigana tool).             *)
(*                                                                         *)
(* A JavaScript string is a sequence of UTF-16 code units.  The model      *)
(* keeps six kinds of code unit:                                           *)
(*   "a"   an ASCII letter                (1 byte in UTF-8)                *)
(*   "K"   a kanji / kana (BMP)           (3 bytes)                        *)
(*   "DOT" the ideographic full stop      (3 bytes, sentence terminator)   *)
(*   "NL"  the line feed                  (1 byte,  sentence terminator)   *)
(*   "HI"  a high surrogate, "LO" a low surrogate: the pair HI LO is one   *)
(*         supplementary character (4 bytes); alone, TextEncoder encodes   *)
(*         either as U+FFFD (3 bytes).                                     *)
(* Text produced by the program (formatted output, error messages) is a    *)
(* sequence of tokens as well: code units, and the literal pieces of the   *)
(* template strings.                                                       *)
(***************************************************************************)
EXTENDS Integers, Sequences, FiniteSets, TLC

VARIABLES text, limit, output_format, dropNL, pc, chunks, i, inflight,
          calls, replies, results, response, remainingText

vars == <<text, limit, output_format, dropNL, pc, chunks, i, inflight,
          calls, replies, results, response, remainingText>>

----------------------------------------------------------------------------
(* Bounds of the model *)

\* longest input text, in code units
MaxLen == 4
\* largest byte limit tried (the code fixes MAX_CHUNK_SIZE = 3000)
MaxLimit == 6

----------------------------------------------------------------------------
(* Strings *)

Units == {"a", "K", "DOT", "NL", "HI", "LO"}

\* the characters of the regular expression /(?<=[...\n])/
Terminators == {"DOT", "NL"}

\* s.slice(from) for 0-based from
SliceFrom(s, from) == SubSeq(s, from + 1, Len(s))

\* s.slice(0, end)
SliceTo(s, end) == SubSeq(s, 1, end)

\* a JavaScript string is truthy when it is not empty
Truthy(s) == Len(s) > 0

\* input texts are well-formed UTF-16: every HI is followed by LO and every
\* LO is preceded by HI
WellFormed(s) ==
  \A k \in 1..Len(s) :
    /\ (s[k] = "HI" => (k < Len(s) /\ s[k + 1] = "LO"))
    /\ (s[k] = "LO" => (k > 1 /\ s[k - 1] = "HI"))

Texts == UNION {{s \in [1..n -> Units] : WellFormed(s)} : n \in 0..MaxLen}

\* encoder.encode(s).length: a surrogate pair is 4 bytes, a lone surrogate
\* is replaced by U+FFFD (3 bytes)
RECURSIVE byteLength(_)
byteLength(s) ==
  IF s = <<>> THEN 0
  ELSE IF s[1] = "HI" /\ Len(s) >= 2 /\ s[2] = "LO"
       THEN 4 + byteLength(SliceFrom(s, 2))
  ELSE IF s[1] \in {"a", "NL"} THEN 1 + byteLength(Tail(s))
  ELSE 3 + byteLength(Tail(s))

\* array.join(sep)
RECURSIVE join(_, _)
join(arr, sep) ==
  IF arr = <<>> THEN <<>>
  ELSE IF Len(arr) = 1 THEN arr[1]
  ELSE arr[1] \o sep \o join(Tail(arr), sep)

----------------------------------------------------------------------------
(* splitTextIntoChunks *)

\* text.split(/(?<=[...\n])/): cut after every terminator; no empty piece
RECURSIVE splitSentences(_, _)
splitSentences(s, cur) ==
  IF s = <<>> THEN (IF cur = <<>> THEN <<>> ELSE <<cur>>)
  ELSE IF s[1] \in Terminators
       THEN <<cur \o <<s[1]>>>> \o splitSentences(Tail(s), <<>>)
  ELSE splitSentences(Tail(s), cur \o <<s[1]>>)

\* while (encode(remaining.slice(0, end)).length > MAX && end > 1) end = floor(end / 2)
RECURSIVE halve(_, _, _)
halve(remaining, end, L) ==
  IF byteLength(SliceTo(remaining, end)) > L /\ end > 1
  THEN halve(remaining, end \div 2, L)
  ELSE end

\* extend as it would be without the search for a better break point
extendNever(remaining, end, L) == end

\* while (end < remaining.length && encode(remaining.slice(0, end + 1)).length <= MAX) end++
RECURSIVE extend(_, _, _)
extend(remaining, end, L) ==
  IF end < Len(remaining) /\ byteLength(SliceTo(remaining, end + 1)) <= L
  THEN extend(remaining, end + 1, L)
  ELSE end

\* the break point of one iteration of the character loop
breakPoint(remaining, L) == extend(remaining, halve(remaining, Len(remaining), L), L)

\* while (remaining) { ...; chunks.push(remaining.slice(0, end)); remaining = remaining.slice(end) }
RECURSIVE charSplit(_, _)
charSplit(remaining, L) ==
  IF ~Truthy(remaining) THEN <<>>
  ELSE LET end == breakPoint(remaining, L)
       IN  <<SliceTo(remaining, end)>> \o charSplit(SliceFrom(remaining, end), L)

\* flushBuffer as it would be if the buffer were reset instead of restarted
\* with the current sentence
flushBufferDropsSentence(acc, currentChunk, sentence) ==
  [chunks |-> Append(acc, currentChunk), currentChunk |-> <<>>]

\* what the branch "testBytes.length > MAX && currentChunk" does:
\* [chunks, currentChunk] after it
flushBuffer(acc, currentChunk, sentence) ==
  [chunks |-> Append(acc, currentChunk), currentChunk |-> sentence]

\* for (const sentence of sentences) { ... }; if (currentChunk) chunks.push(currentChunk)
RECURSIVE sentenceLoop(_, _, _, _)
sentenceLoop(sentences, acc, currentChunk, L) ==
  IF sentences = <<>>
  THEN (IF Truthy(currentChunk) THEN Append(acc, currentChunk) ELSE acc)
  ELSE LET sentence == Head(sentences)
           testChunk == currentChunk \o sentence
       IN  IF byteLength(testChunk) > L
           THEN IF Truthy(currentChunk)
                THEN LET st == flushBuffer(acc, currentChunk, sentence)
                     IN  sentenceLoop(Tail(sentences), st.chunks, st.currentChunk, L)
                ELSE sentenceLoop(Tail(sentences), acc \o charSplit(sentence, L),
                                  currentChunk, L)
           ELSE sentenceLoop(Tail(sentences), acc, testChunk, L)

splitTextIntoChunks(t, L) ==
  IF byteLength(t) <= L THEN <<t>>
  ELSE sentenceLoop(splitSentences(t, <<>>), <<>>, <<>>, L)

----------------------------------------------------------------------------
(* Result formatting *)

\* A Word is [surface, furigana, roman, hasSub, subword]; an optional string
\* that is absent is <<>> (the code tests optional strings for truthiness
\* only, so absent and empty are the same to it); hasSub tells whether the
\* optional array subword is present (an empty array is truthy).
\* A SubWord is [surface, furigana, roman].

\* literal pieces of the template strings
FwOpen == <<"((">>        \* full-width opening parenthesis
FwClose == <<"))">>       \* full-width closing parenthesis
RubyOpen == <<"<ruby>">>
RtOpen == <<"<rt>">>
RubyClose == <<"</rt></ruby>">>
Newline == <<"NL">>

\* distinctFurigana as it would be without the comparison with the surface
anyFurigana(w) == Truthy(w.furigana)

\* word.furigana && word.surface !== word.furigana
distinctFurigana(w) == Truthy(w.furigana) /\ w.surface # w.furigana

\* `${surface}((${furigana}))`
bracketAnnotated(w) == w.surface \o FwOpen \o w.furigana \o FwClose

\* `<ruby>${surface}<rt>${furigana}</rt></ruby>`
rubyAnnotated(w) == RubyOpen \o w.surface \o RtOpen \o w.furigana \o RubyClose

\* the callback of word.subword.map(...) in formatBracket
bracketSub(sw) == IF distinctFurigana(sw) THEN bracketAnnotated(sw) ELSE sw.surface

\* the callback of word.subword.map(...) in formatRuby
rubySub(sw) == IF distinctFurigana(sw) THEN rubyAnnotated(sw) ELSE sw.surface

\* the callback of word.subword.map(...) in formatWithRoman
romanSub(sw) ==
  <<"  - ">> \o sw.surface \o <<": ">> \o sw.furigana \o <<" (">> \o sw.roman \o <<")">>

\* the body of the loop of formatBracket: the part pushed for one word
bracketWord(w) ==
  IF distinctFurigana(w) THEN bracketAnnotated(w)
  ELSE IF w.hasSub
       THEN join([k \in 1..Len(w.subword) |-> bracketSub(w.subword[k])], <<>>)
  ELSE w.surface

\* the body of the loop of formatRuby
rubyWord(w) ==
  IF distinctFurigana(w) THEN rubyAnnotated(w)
  ELSE IF w.hasSub
       THEN join([k \in 1..Len(w.subword) |-> rubySub(w.subword[k])], <<>>)
  ELSE w.surface

\* the body of the loop of formatWithRoman
romanWord(w) ==
  IF w.hasSub
  THEN w.surface \o <<":", "NL">>
       \o join([k \in 1..Len(w.subword) |-> romanSub(w.subword[k])], Newline)
  ELSE IF Truthy(w.furigana) \/ Truthy(w.roman)
       THEN w.surface \o <<": ">> \o w.furigana \o <<" (">> \o w.roman \o <<")">>
  ELSE w.surface

formatBracket(words) == join([k \in 1..Len(words) |-> bracketWord(words[k])], <<>>)

formatRuby(words) == join([k \in 1..Len(words) |-> rubyWord(words[k])], <<>>)

formatWithRoman(words) == join([k \in 1..Len(words) |-> romanWord(words[k])], Newline)

\* switch (format) { case "ruby": ...; case "roman": ...; case "bracket": default: ... }
formatResult(words, format) ==
  CASE format = "ruby" -> formatRuby(words)
    [] format = "roman" -> formatWithRoman(words)
    [] OTHER -> formatBracket(words)

----------------------------------------------------------------------------
(* The remote service *)

\* A reply is [kind, words, code, message]:
\*   "reject"  fetch itself fails (message)
\*   "http"    response.ok is false (code = status, message = statusText)
\*   "error"   the body carries error = {code, message}
\*   "empty"   the body carries neither result nor error
\*   "ok"      the body carries result = {word: words}
NoWord == [surface |-> <<>>, furigana |-> <<>>, roman |-> <<>>,
           hasSub |-> FALSE, subword |-> <<>>]

\* the word a chunk-size-agnostic service returns for one code unit; a
\* service that drops line breaks (drop) returns no word for "NL"
unitWords(u, drop) ==
  CASE u = "a" -> <<[NoWord EXCEPT !.surface = <<"a">>, !.roman = <<"a">>]>>
    [] u = "K" -> <<[NoWord EXCEPT !.surface = <<"K">>, !.furigana = <<"ka">>,
                                   !.roman = <<"KA">>]>>
    [] u = "DOT" -> <<[NoWord EXCEPT !.surface = <<"DOT">>, !.furigana = <<"DOT">>]>>
    [] u = "NL" -> IF drop THEN <<>> ELSE <<[NoWord EXCEPT !.surface = <<"NL">>]>>
    [] u = "HI" -> <<[NoWord EXCEPT !.surface = <<"HI">>, !.hasSub = TRUE,
                        !.subword = <<[surface |-> <<"HI">>, furigana |-> <<"hi">>,
                                       roman |-> <<>>]>>]>>
    [] OTHER -> <<[NoWord EXCEPT !.surface = <<u>>]>>

\* the word list for a fragment is the concatenation of the word lists of
\* its parts
RECURSIVE stubWords(_, _)
stubWords(q, drop) ==
  IF q = <<>> THEN <<>> ELSE unitWords(q[1], drop) \o stubWords(Tail(q), drop)

ServiceErrors == {[code |-> "400", message |-> "x"]}
HttpFailures == {[code |-> "500", message |-> "Internal Server Error"]}

reply(kind, words, code, message) ==
  [kind |-> kind, words |-> words, code |-> code, message |-> message]

----------------------------------------------------------------------------
(* processTextWithChunking and the gen_furigana handler *)

\* output_format is "absent" when the caller leaves it out
Formats == {"absent", "bracket", "ruby", "roman"}

\* const format = output_format || "ruby"
formatOf(of) == IF of = "absent" THEN "ruby" ELSE of

NoResponse == [isError |-> FALSE, text |-> <<>>]

\* the return of the try block
successResponse(formatted) == [isError |-> FALSE, text |-> formatted]

\* the return of the catch block
errorResponse(errorMessage) ==
  [isError |-> TRUE, text |-> <<"error occurred: ">> \o errorMessage]

\* `HTTP error: ${response.status} ${response.statusText}`
httpMessage(r) == <<"HTTP error: ", r.code, " ", r.message>>

\* the message thrown for a reply with an error object, for chunk j (0-based)
\* of n
serviceMessage(r, j, n) ==
  IF n = 1
  THEN <<"API error: ", r.message, " (code: ", r.code, ")">>
  ELSE <<"API error (chunk ", ToString(j + 1), "/", ToString(n), "): ", r.message>>

\* the message thrown for a reply with neither result nor error
emptyMessage(j, n) ==
  IF n = 1
  THEN <<"no result">>
  ELSE <<"no result (chunk ", ToString(j + 1), "/", ToString(n), ")">>

\* format === "roman" ? results.join("\n") : results.join("")
joinResults(res, format) ==
  IF format = "roman" THEN join(res, Newline) ELSE join(res, <<>>)

\* the text of the request for chunk j (0-based): the single-chunk path sends
\* text, the loop sends chunks[j]
queryOf(j) == IF Len(chunks) = 1 THEN text ELSE chunks[j + 1]

Init ==
  /\ text \in Texts
  /\ limit \in 1..MaxLimit
  /\ output_format \in Formats
  /\ dropNL \in BOOLEAN
  /\ pc = "start"
  /\ chunks = <<>>
  /\ i = 0
  /\ inflight = {}
  /\ calls = <<>>
  /\ replies = <<>>
  /\ results = <<>>
  /\ response = NoResponse
  /\ remainingText = <<>>

\* const chunks = splitTextIntoChunks(text)
Invoke ==
  /\ pc = "start"
  /\ chunks' = splitTextIntoChunks(text, limit)
  /\ pc' = "call"
  /\ UNCHANGED <<text, limit, output_format, dropNL, i, inflight, calls,
                 replies, results, response, remainingText>>

\* await getFurigana(...): the request leaves, the flow is suspended
IssueCall ==
  /\ pc = "call"
  /\ calls' = Append(calls, [index |-> i, q |-> queryOf(i)])
  /\ inflight' = inflight \cup {i}
  /\ pc' = "await"
  /\ UNCHANGED <<text, limit, output_format, dropNL, chunks, i, replies,
                 results, response, remainingText>>

\* throwError as it would be if the loop caught the error of a chunk and went
\* on with the next chunk
throwErrorContinues(errorMessage) ==
  IF i + 1 < Len(chunks)
  THEN /\ i' = i + 1
       /\ pc' = "call"
       /\ UNCHANGED <<results, response>>
  ELSE /\ response' = errorResponse(errorMessage)
       /\ pc' = "done"
       /\ UNCHANGED <<i, results>>

\* throwError as it would be if the loop broke off at the failing chunk and
\* returned what it had collected
throwErrorPartial(errorMessage) ==
  /\ response' = [isError |-> TRUE,
                  text |-> join(results, <<>>) \o errorResponse(errorMessage).text]
  /\ pc' = "done"
  /\ UNCHANGED <<i, results>>

\* an error thrown in processTextWithChunking reaches the catch of the handler
throwError(errorMessage) ==
  /\ response' = errorResponse(errorMessage)
  /\ pc' = "done"
  /\ UNCHANGED <<i, results>>

\* the reply r arrives for the call in flight
receive(r) ==
  /\ pc = "await"
  /\ inflight' = inflight \ {i}
  /\ replies' = Append(replies, r)
  /\ UNCHANGED <<text, limit, output_format, dropNL, chunks, calls, remainingText>>

\* fetch rejects (network failure): getFurigana throws
FetchRejects ==
  /\ receive(reply("reject", <<>>, "", "fetch failed"))
  /\ throwError(<<"fetch failed">>)

\* if (!response.ok) throw new Error(`HTTP error: ...`)
ReplyHttpError ==
  \E f \in HttpFailures :
    LET r == reply("http", <<>>, f.code, f.message)
    IN  receive(r) /\ throwError(httpMessage(r))

\* if (response.error) throw new Error(...)
ReplyServiceError ==
  \E e \in ServiceErrors :
    LET r == reply("error", <<>>, e.code, e.message)
    IN  receive(r) /\ throwError(serviceMessage(r, i, Len(chunks)))

\* if (!response.result) throw new Error(...)
ReplyEmpty ==
  /\ receive(reply("empty", <<>>, "", ""))
  /\ throwError(emptyMessage(i, Len(chunks)))

\* a result arrives: format it, then return (single chunk, or last chunk of
\* the loop) or go on to the next chunk
ReplyResult ==
  LET r == reply("ok", stubWords(queryOf(i), dropNL), "", "")
      format == formatOf(output_format)
      formatted == formatResult(r.words, format)
  IN  /\ receive(r)
      /\ IF Len(chunks) = 1
         THEN /\ response' = successResponse(formatted)
              /\ pc' = "done"
              /\ UNCHANGED <<i, results>>
         ELSE /\ results' = Append(results, formatted)
              /\ IF i + 1 < Len(chunks)
                 THEN /\ i' = i + 1
                      /\ pc' = "call"
                      /\ UNCHANGED response
                 ELSE /\ response' = successResponse(joinResults(results', format))
                      /\ pc' = "done"
                      /\ UNCHANGED i

Next ==
  \/ Invoke
  \/ IssueCall
  \/ FetchRejects
  \/ ReplyHttpError
  \/ ReplyServiceError
  \/ ReplyEmpty
  \/ ReplyResult

Spec == Init /\ [][Next]_vars

----------------------------------------------------------------------------
(* The formatter on its own: one word of a bounded set, in every style *)

\* longest subword list tried
MaxSub == 2

Surfaces == {<<"K">>, <<"K", "a">>}

SubWords ==
  UNION {[surface : {s}, furigana : {<<>>, s, <<"ka">>}, roman : {<<>>, <<"KA">>}]
         : s \in {<<"K">>, <<"a">>}}

SubWordLists == UNION {[1..n -> SubWords] : n \in 0..MaxSub}

Words ==
  UNION {[surface : {s}, furigana : {<<>>, s, <<"ka">>}, roman : {<<>>, <<"KA">>},
          hasSub : {FALSE}, subword : {<<>>}]
         \cup [surface : {s}, furigana : {<<>>, s, <<"ka">>}, roman : {<<>>, <<"KA">>},
               hasSub : {TRUE}, subword : SubWordLists]
         : s \in Surfaces}

InitFormat ==
  /\ text = <<>>
  /\ limit = 1
  /\ output_format \in Formats
  /\ dropNL = FALSE
  /\ pc = "format"
  /\ chunks = <<>>
  /\ i = 0
  /\ inflight = {}
  /\ calls = <<>>
  /\ replies \in {<<reply("ok", <<w>>, "", "")>> : w \in Words}
  /\ results = <<>>
  /\ response = NoResponse
  /\ remainingText = <<>>

\* formatResult(response.result, format) on the result at hand
FormatWord ==
  /\ pc = "format"
  /\ response' = successResponse(formatResult(replies[1].words, formatOf(output_format)))
  /\ pc' = "formatted"
  /\ UNCHANGED <<text, limit, output_format, dropNL, chunks, i, inflight, calls,
                 replies, results, remainingText>>

SpecFormat == InitFormat /\ [][FormatWord]_vars

----------------------------------------------------------------------------
(* The character split loop on its own, one iteration per step *)

\* a sentence unit of the split: not empty, with no terminator before its
\* last code unit
IsSentenceUnit(s) ==
  /\ Truthy(s)
  /\ \A k \in 1..(Len(s) - 1) : s[k] \notin Terminators

\* the state at "let remaining = sentence": the buffer is empty and the
\* sentence alone is over the limit
InitBisect ==
  /\ limit \in 1..MaxLimit
  /\ text \in {s \in Texts : IsSentenceUnit(s) /\ byteLength(s) > limit}
  /\ output_format = "absent"
  /\ dropNL = FALSE
  /\ pc = "bisect"
  /\ chunks = <<>>
  /\ i = 0
  /\ inflight = {}
  /\ calls = <<>>
  /\ replies = <<>>
  /\ results = <<>>
  /\ response = NoResponse
  /\ remainingText = text

\* one iteration of while (remaining) { ... }
BisectStep ==
  /\ pc = "bisect"
  /\ Truthy(remainingText)
  /\ LET end == breakPoint(remainingText, limit)
     IN  /\ chunks' = Append(chunks, SliceTo(remainingText, end))
         /\ remainingText' = SliceFrom(remainingText, end)
  /\ pc' = IF Truthy(remainingText') THEN "bisect" ELSE "bisected"
  /\ UNCHANGED <<text, limit, output_format, dropNL, i, inflight, calls, replies,
                 results, response>>

SpecBisect == InitBisect /\ [][BisectStep]_vars

----------------------------------------------------------------------------
(* Properties *)

Range(s) == {s[k] : k \in 1..Len(s)}

\* s occurs in t as a contiguous piece
IsInfix(s, t) ==
  \E k \in 0..(Len(t) - Len(s)) : SubSeq(t, k + 1, k + Len(s)) = s

\* one character: one code unit, or one surrogate pair
IsSingleCharacter(c) == Len(c) = 1 \/ c = <<"HI", "LO">>

WithinLimit(c) == byteLength(c) <= limit \/ IsSingleCharacter(c)

Failed(r) == r.kind # "ok"

\* the formatted output of the k-th reply, in style format
FormattedReply(k, format) == formatResult(replies[k].words, format)

\* C1: every chunk returned by splitTextIntoChunks, and so every fragment sent
\* to the remote service, is at most limit bytes, unless it is a single
\* character that is itself larger than the limit.
C1_ChunkBound ==
  /\ pc # "start" => \A k \in 1..Len(chunks) : WithinLimit(chunks[k])
  /\ \A k \in 1..Len(calls) : WithinLimit(calls[k].q)

\* C2: the chunks returned by splitTextIntoChunks, concatenated in order with
\* no separator, are the input text.
C2_RoundTrip ==
  pc \in {"call", "await", "done"} => join(chunks, <<>>) = text

\* C2 witness: a split that uses the bisection (a, DOT), a buffer flush (NL)
\* and the final flush (K).
C2_Witness ==
  /\ pc = "call"
  /\ limit = 3
  /\ text = <<"a", "DOT", "NL", "K">>
  /\ chunks = <<<<"a">>, <<"DOT">>, <<"NL">>, <<"K">>>>

\* C3: when the call for chunk j of n >= 2 chunks fails (HTTP status, error
\* object, or neither result nor error), the error text carries j (1-based),
\* n and the cause.
C3_FailureAttribution ==
  (pc = "done" /\ Len(chunks) >= 2 /\ replies # <<>>
     /\ replies[Len(replies)].kind \in {"http", "error", "empty"})
  => LET r == replies[Len(replies)]
         cause == CASE r.kind = "http" -> {r.code, r.message}
                    [] r.kind = "error" -> {r.message}
                    [] OTHER -> {}
     IN  /\ ToString(Len(replies)) \in Range(response.text)
         /\ ToString(Len(chunks)) \in Range(response.text)
         /\ cause \subseteq Range(response.text)

\* C4: calls are issued in chunk order, at most one is in flight, the call
\* for the next chunk is issued only after the one before succeeded, and no
\* call follows a failed one.
C4_Sequential ==
  /\ Cardinality(inflight) <= 1
  /\ Len(replies) + Cardinality(inflight) = Len(calls)
  /\ \A k \in 1..Len(calls) : calls[k].index = k - 1
  /\ \A k \in 1..Len(replies) : Failed(replies[k]) => Len(calls) = k
  /\ Len(calls) <= Len(chunks)

\* C4 witness: the second of at least three chunks has failed after the first
\* succeeded.
C4_Witness ==
  /\ pc = "done"
  /\ Len(chunks) >= 3
  /\ Len(replies) = 2
  /\ ~Failed(replies[1])
  /\ Failed(replies[2])

\* C5: the response is either a success whose text is the joined formatted
\* output of all chunks, or a failure whose text holds none of the formatted
\* output of the chunks that had succeeded.
C5_NoPartialResult ==
  pc = "done" =>
    LET format == formatOf(output_format)
        n == Len(replies)
    IN  /\ n >= 1
        /\ response.isError = Failed(replies[n])
        /\ \A k \in 1..(n - 1) : ~Failed(replies[k])
        /\ ~response.isError =>
             /\ n = Len(chunks)
             /\ response.text =
                  joinResults([k \in 1..n |-> FormattedReply(k, format)], format)
        /\ response.isError =>
             \A k \in 1..(n - 1) :
               FormattedReply(k, format) # <<>>
                 => ~IsInfix(FormattedReply(k, format), response.text)

\* C5 witness: a failure after two chunks had succeeded with output.
C5_Witness ==
  /\ pc = "done"
  /\ response.isError
  /\ Len(replies) = 3
  /\ \A k \in 1..2 : FormattedReply(k, formatOf(output_format)) # <<>>

\* C6: with a chunk-size-agnostic service, the joined output of multi-chunk
\* processing is the formatted output of one call on the whole text, in every
\* style.
C6_Transparent ==
  (pc = "done" /\ ~response.isError /\ Len(chunks) >= 2)
  => response.text = formatResult(stubWords(text, dropNL), formatOf(output_format))

\* C7 (as claimed): in every style, a word whose furigana is present and
\* equal to its surface is rendered as its bare surface.
C7_SuppressedEveryStyle ==
  (pc = "formatted" /\ Truthy(replies[1].words[1].furigana)
     /\ replies[1].words[1].furigana = replies[1].words[1].surface)
  => response.text = replies[1].words[1].surface

\* C7 (amended): in the bracket and ruby styles, a word whose furigana is
\* present and equal to its surface gets no annotation of its own: without
\* subwords it is rendered as its bare surface, and with subwords of which
\* none has a distinct furigana as the bare surfaces of its subwords.
C7_SuppressedBracketRuby ==
  (pc = "formatted" /\ formatOf(output_format) \in {"bracket", "ruby"}
     /\ Truthy(replies[1].words[1].furigana)
     /\ replies[1].words[1].furigana = replies[1].words[1].surface)
  => LET w == replies[1].words[1]
         markup == {"((", "))", "<ruby>", "<rt>", "</rt></ruby>"}
     IN  /\ ~w.hasSub => response.text = w.surface
         /\ (w.hasSub /\ \A k \in 1..Len(w.subword) :
                           w.subword[k].furigana \in {<<>>, w.subword[k].surface})
            => /\ response.text =
                    join([k \in 1..Len(w.subword) |-> w.subword[k].surface], <<>>)
               /\ Range(response.text) \cap markup = {}

\* C7 witness: such a word, without subwords, formatted in the bracket style.
C7_Witness ==
  /\ pc = "formatted"
  /\ output_format = "bracket"
  /\ replies[1].words[1].furigana = <<"K", "a">>
  /\ replies[1].words[1].surface = <<"K", "a">>
  /\ ~replies[1].words[1].hasSub
  /\ response.text = <<"K", "a">>

\* C8: a call without output_format is rendered in the bracket style.
C8_DefaultBracket ==
  (pc = "done" /\ ~response.isError /\ output_format = "absent")
  => response.text =
       joinResults([k \in 1..Len(replies) |-> FormattedReply(k, "bracket")], "bracket")

\* C9: no chunk boundary falls inside a surrogate pair: every chunk of a
\* well-formed text is well-formed, even when the limit is large enough for
\* every character to fit on its own.
C9_WholeCharacters ==
  (pc # "start" /\ limit >= 4) => \A k \in 1..Len(chunks) : WellFormed(chunks[k])

\* C10: a service error reaches the response with its code and its message,
\* on the single-chunk and on the multi-chunk path.
C10_ServiceErrorContent ==
  (pc = "done" /\ replies # <<>> /\ replies[Len(replies)].kind = "error")
  => /\ response.isError
     /\ replies[Len(replies)].code \in Range(response.text)
     /\ replies[Len(replies)].message \in Range(response.text)

\* every code unit fits the limit on its own (so it is for the 3000 bytes of
\* the code)
EveryUnitFits == \A u \in Units : byteLength(<<u>>) <= limit

\* C11: in the character split loop, the chunk just emitted is the longest
\* prefix of what remained whose byteLength is within the limit: it is not
\* empty, it is within the limit, it is all that remained or one more code
\* unit would exceed the limit, and no longer prefix fits; the chunks and
\* the remainder always make up the unit, every chunk is non-empty (so the
\* remainder shrinks at every iteration), and the loop ends with nothing
\* remaining.
C11_LongestPrefix ==
  /\ join(chunks, <<>>) \o remainingText = text
  /\ \A k \in 1..Len(chunks) : Truthy(chunks[k])
  /\ pc = "bisected" => remainingText = <<>> /\ chunks = charSplit(text, limit)
  /\ (pc \in {"bisect", "bisected"} /\ chunks # <<>>) =>
       LET c == chunks[Len(chunks)]
           before == c \o remainingText
       IN  /\ byteLength(c) <= limit \/ (~EveryUnitFits /\ Len(c) = 1)
           /\ remainingText = <<>> \/ byteLength(SliceTo(before, Len(c) + 1)) > limit
           /\ \A n \in 1..Len(before) :
                byteLength(SliceTo(before, n)) <= limit => n <= Len(c)

\* C11 witness: every code unit fits, the chunk just emitted is longer than
\* the halving alone gave (the extension moved the break point), and more of
\* the unit remains.
C11_Witness ==
  /\ pc = "bisect"
  /\ EveryUnitFits
  /\ chunks # <<>>
  /\ Truthy(remainingText)
  /\ LET c == chunks[Len(chunks)]
         before == c \o remainingText
     IN  Len(c) > halve(before, Len(before), limit)

====
